---- MODULE Spec2Model ----
(***************************************************************************)
(* Model of the MCP tool orchestrator: the tool server (app/main.py) and   *)
(* the client agent (app/client.py): the Gemini-driven agent loop, the     *)
(* deterministic keyword planner and the CLI entry point.                  *)
(*                                                                         *)
(* Python strings are modelled as sequences of tokens (<<>> is the empty   *)
(* string), Optional[str] as a sequence of at most one string (<<>> is     *)
(* None), JSON values as tagged records, and a JSON object as the sequence *)
(* of its (key, value) pairs in insertion order.  The agent's accumulated  *)
(* dict is a function from names to results; the order in which it lists   *)
(* its keys is not tracked, and where that order shows (json.dumps) every  *)
(* order is allowed.                                                       *)
(***************************************************************************)
EXTENDS Integers, Sequences, FiniteSets, TLC

\* ------------------------------------------------------------------ bounds
\* largest number of function_call parts in one response of the service
MaxCalls == 2
\* CPU readings the server can measure: 1..MaxCpu (tenths of a percent)
MaxCpu == 2
\* requests a direct caller of the tool server makes in one run
MaxRequests == 2
\* longest process list handed to the Report Assembler on its own
MaxProcs == 2

\* --------------------------------------------------------- Python values
None == <<>>
Some(s) == <<s>>

JStr(s) == [t |-> "str", v |-> s]
JInt(n) == [t |-> "int", v |-> n]
\* a float, held in tenths
JFloat(n) == [t |-> "float", v |-> n]
\* Python None inside a JSON value
JNull == [t |-> "null", v |-> 0]
JArr(xs) == [t |-> "arr", v |-> xs]
\* a dict: sequence of <<key, value>> in insertion order
JObj(kvs) == [t |-> "obj", v |-> kvs]

HasKey(d, k) == \E i \in 1..Len(d) : d[i][1] = k
\* d[k]
Lookup(d, k) == d[CHOOSE i \in 1..Len(d) : d[i][1] = k][2]
\* d.get(k, default)
DictGet(d, k, default) == IF HasKey(d, k) THEN Lookup(d, k) ELSE default
\* str(x) / f"{x}" of a number
IntStr(n) == ToString(n)
FloatStr(n) == ToString(n \div 10) \o "." \o ToString(n % 10)

RECURSIVE Repeat(_, _)
Repeat(tok, n) == IF n <= 0 THEN <<>> ELSE <<tok>> \o Repeat(tok, n - 1)

\* json.dumps(v) when indent = -1, json.dumps(v, indent=indent) otherwise;
\* depth is the current nesting level
RECURSIVE JsonDumpsAt(_, _, _)
RECURSIVE JsonItems(_, _, _, _)
JsonNewline(indent, depth) ==
    IF indent < 0 THEN <<>> ELSE <<"\n">> \o Repeat(" ", indent * depth)
JsonItems(items, isObj, indent, depth) ==
    IF items = <<>> THEN <<>>
    ELSE LET head == items[1]
             one == IF isObj
                    THEN <<"\"", head[1], "\"", ": ">> \o JsonDumpsAt(head[2], indent, depth)
                    ELSE JsonDumpsAt(head, indent, depth)
             sep == IF Len(items) = 1 THEN <<>>
                    ELSE IF indent < 0 THEN <<", ">> ELSE <<",">>
         IN JsonNewline(indent, depth) \o one \o sep
              \o JsonItems(Tail(items), isObj, indent, depth)
JsonDumpsAt(val, indent, depth) ==
    CASE val.t = "str" -> <<"\"">> \o val.v \o <<"\"">>
      [] val.t = "null" -> <<"null">>
      [] val.t = "int" -> <<IntStr(val.v)>>
      [] val.t = "float" -> <<FloatStr(val.v)>>
      [] val.t = "arr" ->
           IF val.v = <<>> THEN <<"[]">>
           ELSE <<"[">> \o JsonItems(val.v, FALSE, indent, depth + 1)
                  \o JsonNewline(indent, depth) \o <<"]">>
      [] val.t = "obj" ->
           IF val.v = <<>> THEN <<"{}">>
           ELSE <<"{">> \o JsonItems(val.v, TRUE, indent, depth + 1)
                  \o JsonNewline(indent, depth) \o <<"}">>
JsonDumps(val) == JsonDumpsAt(val, -1, 0)
JsonDumpsIndent2(val) == JsonDumpsAt(val, 2, 0)

\* str(x) as an f-string renders a value taken out of a JSON result
PyStr(val) ==
    CASE val.t = "null" -> <<"None">>
      [] val.t = "str" -> val.v
      [] val.t = "int" -> <<IntStr(val.v)>>
      [] val.t = "float" -> <<FloatStr(val.v)>>


\* "\n".join(lines) + "\n"
RECURSIVE JoinLines(_)
JoinLines(lines) ==
    IF lines = <<>> THEN <<>>
    ELSE lines[1] \o (IF Len(lines) = 1 THEN <<>> ELSE <<"\n">>) \o JoinLines(Tail(lines))

\* ------------------------------------------------- the tool server (main.py)
SysInfoFields ==
    <<"platform", "release", "version", "arch", "hostname", "uptime_sec",
      "total_mem_bytes", "free_mem_bytes", "cpu_count", "cpu_model">>

\* the host the server runs on: one fixed machine
HostInfo ==
    <<JStr(<<"Linux">>), JStr(<<"6.1">>), JStr(<<"#1 SMP">>), JStr(<<"x86_64">>),
      JStr(<<"box">>), JInt(1000), JInt(4096), JInt(1024), JInt(8), JStr(<<"unknown">>)>>

\* the host's process table, in process_iter order (not sorted by cpu)
ProcTable ==
    << JObj(<< <<"pid", JInt(1)>>, <<"cpu", JFloat(5)>>, <<"mem", JFloat(10)>>, <<"cmd", JStr(<<"init">>)>> >>),
       JObj(<< <<"pid", JInt(7)>>, <<"cpu", JFloat(31)>>, <<"mem", JFloat(22)>>, <<"cmd", JStr(<<"python">>)>> >>),
       JObj(<< <<"pid", JInt(9)>>, <<"cpu", JFloat(12)>>, <<"mem", JFloat(3)>>, <<"cmd", JStr(<<"sshd">>)>> >>) >>

CpuReadings == 1..MaxCpu

get_system_info == JObj([i \in 1..Len(SysInfoFields) |-> <<SysInfoFields[i], HostInfo[i]>>])

\* value is what psutil.cpu_percent measured over the window
get_cpu_usage(interval_sec, value) ==
    JObj(<< <<"cpu_usage_percent", JFloat(value)>>, <<"window_sec", JFloat(interval_sec)>> >>)

\* procs.sort(key=cpu, reverse=True): a stable sort, descending
RECURSIVE InsertByCpu(_, _)
InsertByCpu(sorted, p) ==
    IF sorted = <<>> THEN <<p>>
    ELSE IF Lookup(sorted[1].v, "cpu").v < Lookup(p.v, "cpu").v
         THEN <<p>> \o sorted
         ELSE <<sorted[1]>> \o InsertByCpu(Tail(sorted), p)
RECURSIVE SortByCpuDesc(_)
SortByCpuDesc(procs) ==
    IF procs = <<>> THEN <<>>
    ELSE InsertByCpu(SortByCpuDesc(SubSeq(procs, 1, Len(procs) - 1)), procs[Len(procs)])

Max0(n) == IF n < 0 THEN 0 ELSE n
Min(a, b) == IF a < b THEN a ELSE b

list_processes(limit) ==
    JArr(SubSeq(SortByCpuDesc(ProcTable), 1, Min(Max0(limit), Len(ProcTable))))

\* the output directory: file name -> Optional content
OutputPath(file_name) == <<"output/">> \o file_name

\* a handler outcome: it raised, or it returned value and left the directory as files
Raised(fs) == [ok |-> FALSE, value |-> JNull, files |-> fs]
Returned(val, fs) == [ok |-> TRUE, value |-> val, files |-> fs]

\* store_in_file opening the file to append, not to overwrite
store_in_file_appending(file_name, content, fs) ==
    IF file_name.t # "str" \/ file_name.v = <<>> \/ content.t # "str"
       \/ file_name.v \notin DOMAIN fs
    THEN Raised(fs)
    ELSE Returned(JObj(<< <<"path", JStr(OutputPath(file_name.v))>> >>),
                  [fs EXCEPT ![file_name.v] =
                      Some((IF fs[file_name.v] = None THEN <<>> ELSE fs[file_name.v][1])
                             \o content.v)])

\* file_name is a JSON value: JNull when the argument is missing
\* and content one too: write_text raises unless it is a string, and when
\* the name is not that of a file it can write in the directory (line 70)
store_in_file(file_name, content, fs) ==
    IF file_name.t # "str" \/ file_name.v = <<>> \/ content.t # "str"
       \/ file_name.v \notin DOMAIN fs
    THEN Raised(fs)
    ELSE Returned(JObj(<< <<"path", JStr(OutputPath(file_name.v))>> >>),
                  [fs EXCEPT ![file_name.v] = Some(content.v)])

\* float(x) and int(x) of a JSON argument; <<>> when the conversion raises
ToFloat(x) ==
    CASE x.t = "float" -> <<x.v>>
      [] x.t = "int" -> <<x.v * 10>>
      [] OTHER -> <<>>
ToInt(x) ==
    CASE x.t = "int" -> <<x.v>>
      [] x.t = "float" -> <<x.v \div 10>>
      [] OTHER -> <<>>

ToolNames == <<"get_system_info", "get_cpu_usage", "list_processes", "store_in_file">>

\* TOOLS[name](args): args is the dict of the request, cpu the reading taken
TOOLS(name, args, cpu, fs) ==
    CASE name = "get_system_info" -> Returned(get_system_info, fs)
      [] name = "get_cpu_usage" ->
           LET w == ToFloat(DictGet(args, "interval_sec", JFloat(5)))
           IN IF w = <<>> THEN Raised(fs) ELSE Returned(get_cpu_usage(w[1], cpu), fs)
      [] name = "list_processes" ->
           LET n == ToInt(DictGet(args, "limit", JInt(5)))
           IN IF n = <<>> THEN Raised(fs) ELSE Returned(list_processes(n[1]), fs)
      [] name = "store_in_file" ->
           store_in_file(DictGet(args, "file_name", JNull),
                         DictGet(args, "content", JStr(<<>>)), fs)
      [] OTHER -> Raised(fs)

tools_list == ToolNames

\* lines 93-99: the HTTP status, the body's result and the directory after,
\* given whether the name is registered and what its handler did
ToolCallResponse(known, out, fs) ==
    IF ~known
    THEN [status |-> 404, result |-> JNull, files |-> fs]
    ELSE IF out.ok
         THEN [status |-> 200, result |-> out.value, files |-> out.files]
         ELSE [status |-> 400, result |-> JNull, files |-> fs]

\* POST /tools/call
tools_call(name, args, cpu, fs) ==
    ToolCallResponse(\E i \in 1..Len(ToolNames) : ToolNames[i] = name,
                     TOOLS(name, args, cpu, fs), fs)

\* ------------------------------------------------------------ Python str
UpperCase == <<"A", "B", "C", "D", "E", "F", "G", "H", "I", "J", "K", "L", "M",
               "N", "O", "P", "Q", "R", "S", "T", "U", "V", "W", "X", "Y", "Z">>
LowerCase == <<"a", "b", "c", "d", "e", "f", "g", "h", "i", "j", "k", "l", "m",
               "n", "o", "p", "q", "r", "s", "t", "u", "v", "w", "x", "y", "z">>
\* code-point order of the characters that occur in operation names
CodePoints == <<"_">> \o LowerCase

LowerChar(c) ==
    IF \E i \in 1..Len(UpperCase) : UpperCase[i] = c
    THEN LowerCase[CHOOSE i \in 1..Len(UpperCase) : UpperCase[i] = c]
    ELSE c
\* s.lower(), s a sequence of characters
Lower(s) == [i \in 1..Len(s) |-> LowerChar(s[i])]
\* sub in s
Contains(s, sub) ==
    \E i \in 0..(Len(s) - Len(sub)) : SubSeq(s, i + 1, i + Len(sub)) = sub

Ord(c) == CHOOSE i \in 1..Len(CodePoints) : CodePoints[i] = c
\* a < b for two strings given as character sequences
RECURSIVE StrLess(_, _)
StrLess(a, b) ==
    IF b = <<>> THEN FALSE
    ELSE IF a = <<>> THEN TRUE
    ELSE IF a[1] = b[1] THEN StrLess(Tail(a), Tail(b))
    ELSE Ord(a[1]) < Ord(b[1])

\* the characters of an operation name
Spelling(name) ==
    CASE name = "get_system_info" -> <<"g", "e", "t", "_", "s", "y", "s", "t", "e", "m", "_", "i", "n", "f", "o">>
      [] name = "get_cpu_usage" -> <<"g", "e", "t", "_", "c", "p", "u", "_", "u", "s", "a", "g", "e">>
      [] name = "list_processes" -> <<"l", "i", "s", "t", "_", "p", "r", "o", "c", "e", "s", "s", "e", "s">>
      [] name = "store_in_file" -> <<"s", "t", "o", "r", "e", "_", "i", "n", "_", "f", "i", "l", "e">>
      [] name = "bogus_tool" -> <<"b", "o", "g", "u", "s", "_", "t", "o", "o", "l">>

\* sorted(names): names a set of operation names
RECURSIVE Sorted(_)
Sorted(names) ==
    IF names = {} THEN <<>>
    ELSE LET least == CHOOSE n \in names :
                        \A m \in names \ {n} : StrLess(Spelling(n), Spelling(m))
         IN <<least>> \o Sorted(names \ {least})

\* ------------------------------------------------------- inputs of one run
GoalDefault ==
    <<"C", "r", "e", "a", "t", "e", " ", "a", " ", "s", "y", "s", "t", "e", "m", " ", "h", "e", "a", "l", "t", "h", " ", "r", "e", "p", "o", "r", "t", " ", "a", "n", "d", " ", "s", "a", "v", "e", " ", "i", "t", " ", "t", "o", " ", "a", " ", "f", "i", "l", "e", ".">>
GoalSummary ==
    <<"H", "E", "A", "L", "T", "H", " ", "S", "u", "m", "m", "a", "r", "y">>
GoalHealthCpu ==
    <<"h", "e", "a", "l", "t", "h", " ", "r", "e", "p", "o", "r", "t", ":", " ", "c", "p", "u", " ", "u", "s", "a", "g", "e">>
GoalCpu ==
    <<"s", "h", "o", "w", " ", "m", "e", " ", "c", "p", "u", " ", "u", "s", "a", "g", "e">>
GoalCpuProc ==
    <<"C", "P", "U", " ", "u", "s", "a", "g", "e", " ", "p", "e", "r", " ", "p", "r", "o", "c", "e", "s", "s">>
GoalProc ==
    <<"l", "i", "s", "t", " ", "P", "r", "o", "c", "e", "s", "s", "e", "s">>
GoalHealthOnly ==
    <<"h", "e", "a", "l", "t", "h", " ", "o", "f", " ", "t", "h", "e", " ", "c", "p", "u">>
GoalOther ==
    <<"d", "o", " ", "s", "o", "m", "e", "t", "h", "i", "n", "g", " ", "u", "n", "r", "e", "l", "a", "t", "e", "d">>

KwHealth == <<"h", "e", "a", "l", "t", "h">>
KwReport == <<"r", "e", "p", "o", "r", "t">>
KwSummary == <<"s", "u", "m", "m", "a", "r", "y">>
KwCpu == <<"c", "p", "u">>
KwUsage == <<"u", "s", "a", "g", "e">>
KwProcess == <<"p", "r", "o", "c", "e", "s", "s">>

Goals == {GoalDefault, GoalSummary, GoalHealthCpu, GoalCpu, GoalCpuProc, GoalProc,
          GoalHealthOnly, GoalOther}

DefaultOut == <<"health_report.txt">>
ModelOut == <<"r.txt">>
\* --out: the default name, or an empty name
OutFiles == {DefaultOut, <<>>}
FileNames == {DefaultOut, ModelOut}
\* a name in a directory that does not exist
Unwritable == <<"no_such_dir/r.txt">>

\* ------------------------------------------- the client (client.py): helpers
\* one request of the Remote Invocation Client, as the run's log keeps it:
\* by is the code place that made it ("final": lines 185-190, "planner":
\* deterministic_agent)
CallEntry(name, args, ok, by) == [name |-> name, args |-> args, ok |-> ok, by |-> by]

\* str(e) of the HTTPError that raise_for_status raises (line 33)
HTTPError(status) == IF status = 404 THEN "404 Client Error" ELSE "400 Client Error"

\* lines 35-38: the exception call raises: a RuntimeError whatever was caught,
\* its message ending with the text of the original error
RuntimeError(original) == [type |-> "RuntimeError", original |-> original]
\* call returned
NoError == [type |-> "", original |-> ""]

\* lines 33-38 of call: r is the server's response; ok = FALSE stands for the
\* RuntimeError raised
CallOutcome(up, r, fs) ==
    IF ~up THEN [ok |-> FALSE, result |-> JNull, files |-> fs,
                 error |-> RuntimeError("Timeout")]
    ELSE IF r.status # 200
         THEN [ok |-> FALSE, result |-> JNull, files |-> r.files,
               error |-> RuntimeError(HTTPError(r.status))]
         ELSE [ok |-> TRUE, result |-> r.result, files |-> r.files, error |-> NoError]

\* call(base, name, args): up is whether the channel answers in time, cpu the
\* reading the server takes
call(name, args, up, cpu, fs) == CallOutcome(up, tools_call(name, args, cpu, fs), fs)

\* list_tools(base): <<>> stands for the RuntimeError raised
list_tools(up) == IF up THEN Some(tools_list) ELSE None

\* lines 46-73 with line 63 guarded by "if k in sysinfo": absent fields skipped
RenderReportPresentOnly(sysinfo, cpu, procs) ==
    LET head == << <<"System Health Report">>, <<"====================">>, <<>>,
                   <<"System Info:">> >>
        present == SelectSeq(SysInfoFields, LAMBDA k : HasKey(sysinfo.v, k))
        info == [i \in 1..Len(present) |->
                   <<"- ", present[i], ": ">> \o PyStr(Lookup(sysinfo.v, present[i]))]
        usage == << <<>>,
                    <<"CPU Usage: ">> \o PyStr(Lookup(cpu.v, "cpu_usage_percent"))
                      \o <<"% (window ">> \o PyStr(Lookup(cpu.v, "window_sec")) \o <<"s)">>,
                    <<>>, <<"Top Processes (by CPU):">> >>
        top == [i \in 1..Len(procs.v) |->
                  <<"- pid=">> \o PyStr(Lookup(procs.v[i].v, "pid"))
                    \o <<" cpu=">> \o PyStr(Lookup(procs.v[i].v, "cpu"))
                    \o <<"% mem=">> \o PyStr(Lookup(procs.v[i].v, "mem"))
                    \o <<"% cmd=">> \o PyStr(Lookup(procs.v[i].v, "cmd"))]
    IN JoinLines(head \o info \o usage \o top) \o <<"\n">>

\* lines 46-73 of generate_health_report: the text of the report
RenderReport(sysinfo, cpu, procs) ==
    LET head == << <<"System Health Report">>, <<"====================">>, <<>>,
                   <<"System Info:">> >>
        info == [i \in 1..Len(SysInfoFields) |->
                   <<"- ", SysInfoFields[i], ": ">>
                     \o PyStr(DictGet(sysinfo.v, SysInfoFields[i], JNull))]
        usage == << <<>>,
                    <<"CPU Usage: ">> \o PyStr(Lookup(cpu.v, "cpu_usage_percent"))
                      \o <<"% (window ">> \o PyStr(Lookup(cpu.v, "window_sec")) \o <<"s)">>,
                    <<>>, <<"Top Processes (by CPU):">> >>
        top == [i \in 1..Len(procs.v) |->
                  <<"- pid=">> \o PyStr(Lookup(procs.v[i].v, "pid"))
                    \o <<" cpu=">> \o PyStr(Lookup(procs.v[i].v, "cpu"))
                    \o <<"% mem=">> \o PyStr(Lookup(procs.v[i].v, "mem"))
                    \o <<"% cmd=">> \o PyStr(Lookup(procs.v[i].v, "cmd"))]
    IN JoinLines(head \o info \o usage \o top) \o <<"\n">>

CpuArgs == << <<"interval_sec", JFloat(5)>> >>
ProcArgs == << <<"limit", JInt(5)>> >>

\* generate_health_report once its three requests c1, c2, c3 are made: the
\* first that fails ends it (ok = FALSE stands for the RuntimeError)
HealthReportOf(by, c1, c2, c3) ==
    LET e1 == CallEntry("get_system_info", <<>>, c1.ok, by)
        e2 == CallEntry("get_cpu_usage", CpuArgs, c2.ok, by)
        e3 == CallEntry("list_processes", ProcArgs, c3.ok, by)
    IN IF ~c1.ok THEN [ok |-> FALSE, text |-> <<>>, log |-> <<e1>>]
       ELSE IF ~c2.ok THEN [ok |-> FALSE, text |-> <<>>, log |-> <<e1, e2>>]
       ELSE IF ~c3.ok THEN [ok |-> FALSE, text |-> <<>>, log |-> <<e1, e2, e3>>]
       ELSE [ok |-> TRUE, text |-> RenderReport(c1.result, c2.result, c3.result),
             log |-> <<e1, e2, e3>>]

\* generate_health_report(base): the three requests of lines 42-44, then the
\* text; failAt = k makes the k-th request fail (0: none does)
generate_health_report(by, failAt, cpu, fs) ==
    HealthReportOf(by,
                   call("get_system_info", <<>>, failAt # 1, cpu, fs),
                   call("get_cpu_usage", CpuArgs, failAt # 2, cpu, fs),
                   call("list_processes", ProcArgs, failAt # 3, cpu, fs))

\* ------------------------------------------------ the generative service
\* function_call parts the service may put in a response; args is fc.args:
\* a mapping (JObj), a string (JStr) or something else (JNull)
ReqSysInfo == [name |-> "get_system_info", args |-> JObj(<<>>)]
ReqCpu == [name |-> "get_cpu_usage", args |-> JStr(JsonDumps(JObj(CpuArgs)))]
ReqProcs == [name |-> "list_processes", args |-> JNull]
ReqStore == [name |-> "store_in_file",
             args |-> JObj(<< <<"file_name", JStr(ModelOut)>>, <<"content", JStr(<<"R">>)>> >>)]
ReqMalformed == [name |-> "get_system_info", args |-> JStr(<<"{", "oops">>)]

\* the requests in the order the system instruction asks for them (lines
\* 125-130): gather the three sources, then store; the malformed one comes last
ReqOrder == <<ReqSysInfo, ReqCpu, ReqProcs, ReqStore, ReqMalformed>>

RECURSIVE SeqsUpTo(_, _)
SeqsUpTo(S, n) ==
    IF n = 0 THEN {<<>>}
    ELSE LET shorter == SeqsUpTo(S, n - 1)
         IN shorter \cup {Append(q, x) : q \in shorter, x \in S}

Texts == {<<>>, <<"All done.">>}

\* the function_call parts of one response: at most MaxCalls requests, each
\* at most once, in the order of ReqOrder
CallLists ==
    LET picks == {q \in SeqsUpTo(1..Len(ReqOrder), MaxCalls) :
                    \A i \in 1..(Len(q) - 1) : q[i] < q[i + 1]}
    IN {[i \in 1..Len(q) |-> ReqOrder[q[i]]] : q \in picks}

\* a response: the function_call parts of its candidates, in order, and resp.text
Responses == [calls : CallLists, text : Texts]

\* the argument dicts a JSON text can stand for
ArgDicts == {<<>>, CpuArgs, ProcArgs}
\* json.loads(s): <<>> stands for the JSONDecodeError raised
JsonLoads(s) ==
    IF \E d \in ArgDicts : JsonDumps(JObj(d)) = s
    THEN Some(CHOOSE d \in ArgDicts : JsonDumps(JObj(d)) = s)
    ELSE None

\* lines 148-153: the args of a function_call; <<>> when decoding raises
DecodeArgs(fcargs) ==
    CASE fcargs.t = "str" -> JsonLoads(fcargs.v)
      [] fcargs.t = "obj" -> Some(fcargs.v)
      [] OTHER -> Some(<<>>)

\* ------------------------------------------------------------------ state
VARIABLES
    apiKey,         \* GOOGLE_API_KEY is set
    goal,           \* --goal, a sequence of characters
    out_file,       \* --out
    pc,             \* where main / try_gemini_agent / deterministic_agent stands
    resp,           \* try_gemini_agent: the latest response of the service
    parts,          \* the function_call parts of the turn still to be handled
    loops,          \* try_gemini_agent: loops
    made_tool_call, \* try_gemini_agent: made_tool_call
    accumulated,    \* try_gemini_agent: accumulated (name -> result)
    name,           \* try_gemini_agent: name of the call whose result is being sent
    tool_result,    \* try_gemini_agent: result, what line 156 got from call
    svcContacted,   \* a message was sent to the generative service
    svcFailed,      \* a message to the generative service failed for good
    files,          \* the server's output directory
    attempted,      \* names of the operations line 156 has requested so far
    invocations,    \* number of requests line 156 has made in the session
    callLog,        \* the requests made outside the loop (lines 185, 190 and
                    \* deterministic_agent), in order
    tools,          \* deterministic_agent: tools
    result,         \* main: result (Optional[str])
    notice,         \* main printed the fallback notice
    final,          \* what main printed under "=== Final Result ===" (Optional)
    exchanges       \* the requests a direct caller of the Remote Invocation Client
                    \* made, in order, each with what call gave and the directory after

vars == <<apiKey, goal, out_file, pc, resp, parts, loops, made_tool_call, accumulated,
          name, tool_result, svcContacted, svcFailed, attempted, invocations, files,
          callLog,
          tools, result, notice, final, exchanges>>

inputs == <<apiKey, goal, out_file>>
agentLocals == <<resp, parts, loops, made_tool_call, accumulated, name, tool_result,
                 invocations>>
service == <<svcContacted, svcFailed>>
executing == <<attempted>>
output == <<notice, final>>

NoResponse == [calls |-> <<>>, text |-> <<>>]

InitRest ==
    /\ pc = "main"
    /\ resp = NoResponse
    /\ parts = <<>>
    /\ loops = 0
    /\ made_tool_call = FALSE
    /\ accumulated = <<>>
    /\ name = ""
    /\ tool_result = JNull
    /\ svcContacted = FALSE
    /\ svcFailed = FALSE
    /\ attempted = {}
    /\ invocations = 0
    /\ files = [f \in FileNames |-> None]
    /\ callLog = <<>>
    /\ tools = {}
    /\ result = None
    /\ notice = FALSE
    /\ final = None
    /\ exchanges = <<>>

\* a run of the CLI with its default goal
Init ==
    /\ apiKey \in BOOLEAN
    /\ goal = GoalDefault
    /\ out_file \in OutFiles
    /\ InitRest

\* ------------------------------------------------------ try_gemini_agent
\* lines 77-79 without the test of the credential: the service is contacted
NoCredentialIgnored ==
    /\ pc = "main"
    /\ ~apiKey
    /\ \E r \in Responses : resp' = r
    /\ accumulated' = <<>>
    /\ loops' = 0
    /\ svcContacted' = TRUE
    /\ pc' = "while"
    /\ UNCHANGED <<inputs, exchanges, parts, made_tool_call, name, tool_result, invocations,
                   svcFailed, executing,
                   files, callLog, tools, result, output>>

\* lines 77-79: no credential
NoCredential ==
    /\ pc = "main"
    /\ ~apiKey
    /\ result' = None
    /\ pc' = "returned"
    /\ UNCHANGED <<inputs, exchanges, agentLocals, service, executing, files, callLog, tools, output>>

\* lines 80-138: the goal is sent and the service answers
SendGoal ==
    /\ pc = "main"
    /\ apiKey
    /\ \E r \in Responses : resp' = r
    /\ accumulated' = <<>>
    /\ loops' = 0
    /\ svcContacted' = TRUE
    /\ pc' = "while"
    /\ UNCHANGED <<inputs, exchanges, parts, made_tool_call, name, tool_result, invocations,
                   svcFailed, executing,
                   files, callLog, tools, result, output>>

\* lines 80-135 raise (import, configure, send_message): lines 198-200
SendGoalFails ==
    /\ pc = "main"
    /\ apiKey
    /\ svcContacted' = TRUE
    /\ svcFailed' = TRUE
    /\ result' = None
    /\ pc' = "returned"
    /\ UNCHANGED <<inputs, exchanges, agentLocals, executing, files, callLog, tools, output>>

\* the loop test with the bound off by one
LoopConditionOffByOne == loops <= 3

\* line 139: while loops < 3 (a response always has candidates)
LoopCondition == loops < 3

\* lines 139-142: a turn starts and iterates over the parts of the current resp
LoopEnter ==
    /\ pc = "while"
    /\ LoopCondition
    /\ loops' = loops + 1
    /\ made_tool_call' = FALSE
    /\ parts' = resp.calls
    /\ pc' = "for"
    /\ UNCHANGED <<inputs, exchanges, resp, accumulated, name, tool_result, invocations,
                   service, executing, files,
                   callLog, tools, result, output>>

\* line 139: the bound is reached
LoopExit ==
    /\ pc = "while"
    /\ ~LoopCondition
    /\ pc' = "finalize"
    /\ UNCHANGED <<inputs, exchanges, agentLocals, service, executing, files, callLog, tools, result, output>>

\* lines 142, 178-179: the parts are exhausted
ForDone ==
    /\ pc = "for"
    /\ parts = <<>>
    /\ pc' = IF made_tool_call THEN "while" ELSE "finalize"
    /\ UNCHANGED <<inputs, exchanges, agentLocals, service, executing, files, callLog, tools, result, output>>

\* line 158 keeping the entry the name already has, as setdefault does
RecordFirstWins(acc, n, res) ==
    [k \in (DOMAIN acc) \cup {n} |-> IF k \in DOMAIN acc THEN acc[k] ELSE res]

\* line 158: accumulated[name] = result
Record(acc, n, res) == [k \in (DOMAIN acc) \cup {n} |-> IF k = n THEN res ELSE acc[k]]

\* lines 144-159 with lines 160-177 left out: the next function_call is
\* invoked before the result of this one is sent back
ExecCallUnsent ==
    /\ pc = "for"
    /\ parts # <<>>
    /\ \E up \in BOOLEAN,
          cpu \in (IF Head(parts).name = "get_cpu_usage" THEN CpuReadings ELSE {1}) :
         LET fc == Head(parts)
             args == DecodeArgs(fc.args)
         IN IF args = None
            THEN /\ result' = None
                 /\ pc' = "returned"
                 /\ UNCHANGED <<agentLocals, executing, files>>
            ELSE LET c == call(fc.name, args[1], up, cpu, files)
                 IN /\ attempted' = attempted \cup {fc.name}
                    /\ invocations' = invocations + 1
                    /\ files' = c.files
                    /\ IF c.ok
                       THEN /\ accumulated' = Record(accumulated, fc.name, c.result)
                            /\ made_tool_call' = TRUE
                            /\ name' = fc.name
                            /\ tool_result' = c.result
                            /\ parts' = Tail(parts)
                            /\ pc' = "for"
                            /\ UNCHANGED <<resp, loops, result>>
                       ELSE /\ result' = None
                            /\ pc' = "returned"
                            /\ UNCHANGED <<resp, parts, loops, made_tool_call,
                                           accumulated, name, tool_result>>
    /\ UNCHANGED <<inputs, exchanges, service, callLog, tools, output>>

\* lines 144-159: the next function_call is decoded and invoked; any exception
\* (json.loads, call) reaches lines 198-200
ExecCall ==
    /\ pc = "for"
    /\ parts # <<>>
    /\ \E up \in BOOLEAN,
          cpu \in (IF Head(parts).name = "get_cpu_usage" THEN CpuReadings ELSE {1}) :
         LET fc == Head(parts)
             args == DecodeArgs(fc.args)
         IN IF args = None
            THEN /\ result' = None
                 /\ pc' = "returned"
                 /\ UNCHANGED <<agentLocals, executing, files>>
            ELSE LET c == call(fc.name, args[1], up, cpu, files)
                 IN /\ attempted' = attempted \cup {fc.name}
                    /\ invocations' = invocations + 1
                    /\ files' = c.files
                    /\ IF c.ok
                       THEN /\ accumulated' = Record(accumulated, fc.name, c.result)
                            /\ made_tool_call' = TRUE
                            /\ name' = fc.name
                            /\ tool_result' = c.result
                            /\ parts' = Tail(parts)
                            /\ pc' = "send"
                            /\ UNCHANGED <<resp, loops, result>>
                       ELSE /\ result' = None
                            /\ pc' = "returned"
                            /\ UNCHANGED <<resp, parts, loops, made_tool_call,
                                           accumulated, name, tool_result>>
    /\ UNCHANGED <<inputs, exchanges, service, callLog, tools, output>>

\* lines 160-177 with the function_calls of the reply joining the turn's parts
SendResultExtendsTurn ==
    /\ pc = "send"
    /\ \E answered \in BOOLEAN :
         IF answered
         THEN /\ \E r \in Responses : resp' = r /\ parts' = parts \o r.calls
              /\ pc' = "for"
              /\ UNCHANGED <<svcFailed, result>>
         ELSE /\ svcFailed' = TRUE
              /\ result' = None
              /\ pc' = "returned"
              /\ UNCHANGED <<resp, parts>>
    /\ UNCHANGED <<inputs, exchanges, loops, made_tool_call, accumulated, name, tool_result,
                   invocations, svcContacted, executing, files, callLog, tools, output>>

\* lines 160-177 with the exception of line 177 swallowed: the turn goes on
SendResultKeepsGoing ==
    /\ pc = "send"
    /\ \E answered \in BOOLEAN :
         IF answered
         THEN /\ \E r \in Responses : resp' = r
              /\ UNCHANGED svcFailed
         ELSE /\ svcFailed' = TRUE
              /\ UNCHANGED resp
    /\ pc' = "for"
    /\ UNCHANGED <<inputs, exchanges, parts, loops, made_tool_call, accumulated, name, tool_result,
                   invocations, svcContacted,
                   executing, files, callLog, tools, result, output>>

\* lines 160-177: the result goes back to the service, as a FunctionResponse or
\* after that raised as text, and the service answers; when both attempts raise
\* the exception reaches lines 198-200
SendResult ==
    /\ pc = "send"
    /\ \E answered \in BOOLEAN :
         IF answered
         THEN /\ \E r \in Responses : resp' = r
              /\ pc' = "for"
              /\ UNCHANGED <<svcFailed, result>>
         ELSE /\ svcFailed' = TRUE
              /\ result' = None
              /\ pc' = "returned"
              /\ UNCHANGED resp
    /\ UNCHANGED <<inputs, exchanges, parts, loops, made_tool_call, accumulated, name, tool_result,
                   invocations, svcContacted,
                   executing, files, callLog, tools, output>>

\* the arguments of lines 190 and 210 with the content left out
StoreArgsEmptyContent(file_name, content) ==
    << <<"file_name", JStr(file_name)>>, <<"content", JStr(<<>>)>> >>

\* lines 190 and 210: {"file_name": out_file, "content": content}
StoreArgs(file_name, content) ==
    << <<"file_name", JStr(file_name)>>, <<"content", JStr(content)>> >>

\* line 183
HaveReportSources(acc) ==
    /\ "get_system_info" \in DOMAIN acc
    /\ "get_cpu_usage" \in DOMAIN acc
    /\ "list_processes" \in DOMAIN acc

\* the sequences that list every element of S once
RECURSIVE Orderings(_)
Orderings(S) ==
    IF S = {} THEN {<<>>}
    ELSE UNION {{<<k>> \o q : q \in Orderings(S \ {k})} : k \in S}

\* acc.items(), in each order the dict may hold its keys
DictItems(acc) ==
    {[i \in 1..Len(q) |-> <<q[i], acc[q[i]]>>] : q \in Orderings(DOMAIN acc)}

\* line 181 without its test of accumulated
WantStoreAlways(acc, out) == out # <<>>

\* line 181
WantStore(acc, out) == out # <<>> /\ "store_in_file" \notin DOMAIN acc

\* lines 182-187 without the free text of lines 186-187
FinalContentReportOnly(acc, rep, text) == IF HaveReportSources(acc) THEN rep.text ELSE <<>>

\* lines 182-187: the content to store, rep being the report of line 185
FinalContent(acc, rep, text) == IF HaveReportSources(acc) THEN rep.text ELSE text

\* lines 181-197 once the requests of line 185 (rep) and line 190 (st) are made;
\* an exception of either reaches lines 198-200. items is acc.items()
FinalizeOutcome(acc, items, text, out, fs, rep, st) ==
    LET wantStore == WantStore(acc, out)
        three == HaveReportSources(acc)
        content == FinalContent(acc, rep, text)
        stEntry == CallEntry("store_in_file", StoreArgs(out, content), st.ok, "final")
        repLog == IF three THEN rep.log ELSE <<>>
    IN IF wantStore /\ three /\ ~rep.ok
       THEN [result |-> None, files |-> fs, log |-> repLog]
       ELSE IF wantStore /\ content # <<>>
       THEN IF st.ok
            THEN [result |-> Some(DictGet(st.result.v, "path", JNull).v),
                  files |-> st.files, log |-> repLog \o <<stEntry>>]
            ELSE [result |-> None, files |-> st.files, log |-> repLog \o <<stEntry>>]
       ELSE IF text # <<>>
       THEN [result |-> Some(text), files |-> fs, log |-> <<>>]
       ELSE [result |-> Some(JsonDumps(JObj(items))), files |-> fs, log |-> <<>>]

FinalizeFrom(acc, items, text, out, fs, rep, failAt, cpu) ==
    FinalizeOutcome(acc, items, text, out, fs, rep,
                    call("store_in_file", StoreArgs(out, FinalContent(acc, rep, text)),
                         failAt # 4, cpu, fs))

\* lines 181-197. failAt = 1..3 makes that request of generate_health_report
\* fail, failAt = 4 the store_in_file request
FinalizeRun(failAt, cpu, acc, items, text, out, fs) ==
    FinalizeFrom(acc, items, text, out, fs,
                 generate_health_report("final", failAt, cpu, fs), failAt, cpu)

\* the choices that FINALIZING has in a session that ends with acc, text and
\* out: which of its requests fails (0: none), the reading a new
\* get_cpu_usage takes, and the order json.dumps finds the keys in
FinalFailures(acc, text, out) ==
    IF ~WantStore(acc, out) THEN {0}
    ELSE IF HaveReportSources(acc) THEN 0..4
    ELSE IF FinalContent(acc, [text |-> <<>>], text) # <<>> THEN {0, 4}
    ELSE {0}
FinalReadings(acc, out) ==
    IF WantStore(acc, out) /\ HaveReportSources(acc) THEN CpuReadings ELSE {1}
FinalItems(acc, text, out) ==
    IF text = <<>> /\ (~WantStore(acc, out) \/ ~HaveReportSources(acc))
    THEN DictItems(acc) ELSE {<<>>}

\* lines 181-200: FINALIZING
Finalize ==
    /\ pc = "finalize"
    /\ \E failAt \in FinalFailures(accumulated, resp.text, out_file),
          cpu \in FinalReadings(accumulated, out_file),
          items \in FinalItems(accumulated, resp.text, out_file) :
         LET o == FinalizeRun(failAt, cpu, accumulated, items, resp.text, out_file, files)
         IN /\ result' = o.result
            /\ files' = o.files
            /\ callLog' = callLog \o o.log
    /\ pc' = "returned"
    /\ UNCHANGED <<inputs, exchanges, agentLocals, service, executing, tools, output>>

\* ---------------------------------------------------------------------- main
\* try_gemini_agent has returned: its locals are gone
FrameDropped ==
    /\ resp' = NoResponse
    /\ parts' = <<>>
    /\ loops' = 0
    /\ made_tool_call' = FALSE
    /\ accumulated' = <<>>
    /\ name' = ""
    /\ tool_result' = JNull
    /\ invocations' = 0

\* lines 236-237: the agent gave no answer
MainFallback ==
    /\ pc = "returned"
    /\ result = None
    /\ notice' = TRUE
    /\ pc' = "planner"
    /\ FrameDropped
    /\ UNCHANGED <<inputs, exchanges, service, executing, files, callLog, tools, result, final>>

\* line 236: the agent answered
MainAnswered ==
    /\ pc = "returned"
    /\ result # None
    /\ pc' = "print"
    /\ FrameDropped
    /\ UNCHANGED <<inputs, exchanges, service, executing, files, callLog, tools, result, output>>

\* lines 239-240
MainPrint ==
    /\ pc = "print"
    /\ final' = result
    /\ pc' = "exit"
    /\ UNCHANGED <<inputs, exchanges, agentLocals, service, executing, files, callLog, tools, result, notice>>

\* ------------------------------------------------------ deterministic_agent
\* lines 204-205: the catalog is fetched; a RuntimeError is not caught by main
PlannerListTools ==
    /\ pc = "planner"
    /\ \E up \in BOOLEAN :
         LET listed == list_tools(up)
         IN IF listed = None
            THEN /\ pc' = "crashed"
                 /\ UNCHANGED tools
            ELSE /\ tools' = {listed[1][i] : i \in 1..Len(listed[1])}
                 /\ pc' = "rules"
    /\ UNCHANGED <<inputs, exchanges, agentLocals, service, executing, files, callLog, result, output>>

\* the rule table with rule 1 taken for every goal
RuleOfAlwaysReport(g) == 1

\* the rule table with the test of line 217 ahead of that of line 214
RuleOfProcessFirst(g) ==
    IF Contains(g, KwHealth) /\ (Contains(g, KwReport) \/ Contains(g, KwSummary)) THEN 1
    ELSE IF Contains(g, KwProcess) THEN 3
    ELSE IF Contains(g, KwCpu) /\ Contains(g, KwUsage) THEN 2
    ELSE 4

\* the rule table of lines 207-221: the number of the first rule that matches g
RuleOf(g) ==
    IF Contains(g, KwHealth) /\ (Contains(g, KwReport) \/ Contains(g, KwSummary)) THEN 1
    ELSE IF Contains(g, KwCpu) /\ Contains(g, KwUsage) THEN 2
    ELSE IF Contains(g, KwProcess) THEN 3
    ELSE 4

\* line 221
AvailableTools(ts) ==
    JsonDumpsIndent2(JObj(<< <<"available_tools",
        JArr([i \in 1..Cardinality(ts) |-> JStr(<<Sorted(ts)[i]>>)])>> >>))

\* lines 207-221 once the requests are made: rep (line 208), st (line 210),
\* c2 (line 215), c3 (line 218); raised = TRUE stands for a RuntimeError of call
PlannerOutcome(g, ts, out, fs, rep, st, c2, c3) ==
    LET rule == RuleOf(g)
        stEntry == CallEntry("store_in_file", StoreArgs(out, rep.text), st.ok, "planner")
    IN CASE rule = 1 ->
              IF ~rep.ok
              THEN [raised |-> TRUE, result |-> None, files |-> fs, log |-> rep.log]
              ELSE IF out # <<>> /\ "store_in_file" \in ts
              THEN IF st.ok
                   THEN [raised |-> FALSE, result |-> Some(Lookup(st.result.v, "path").v),
                         files |-> st.files, log |-> rep.log \o <<stEntry>>]
                   ELSE [raised |-> TRUE, result |-> None, files |-> st.files,
                         log |-> rep.log \o <<stEntry>>]
              ELSE [raised |-> FALSE, result |-> Some(rep.text), files |-> fs, log |-> rep.log]
         [] rule = 2 ->
              [raised |-> ~c2.ok,
               result |-> IF c2.ok THEN Some(JsonDumpsIndent2(c2.result)) ELSE None,
               files |-> c2.files,
               log |-> <<CallEntry("get_cpu_usage", CpuArgs, c2.ok, "planner")>>]
         [] rule = 3 ->
              [raised |-> ~c3.ok,
               result |-> IF c3.ok THEN Some(JsonDumpsIndent2(c3.result)) ELSE None,
               files |-> c3.files,
               log |-> <<CallEntry("list_processes", ProcArgs, c3.ok, "planner")>>]
         [] OTHER ->
              [raised |-> FALSE, result |-> Some(AvailableTools(ts)), files |-> fs,
               log |-> <<>>]

PlannerFrom(g, ts, out, fs, rep, failAt, cpu) ==
    PlannerOutcome(g, ts, out, fs, rep,
                   call("store_in_file", StoreArgs(out, rep.text), failAt # 4, cpu, fs),
                   call("get_cpu_usage", CpuArgs, failAt # 1, cpu, fs),
                   call("list_processes", ProcArgs, failAt # 1, cpu, fs))

\* lines 207-221. failAt = k makes the k-th request of the rule fail (0: none does)
PlannerRun(g, ts, out, failAt, cpu, fs) ==
    PlannerFrom(g, ts, out, fs, generate_health_report("planner", failAt, cpu, fs),
                failAt, cpu)

\* lines 207-221, then line 238 of main (an exception ends main)
PlannerRules ==
    /\ pc = "rules"
    /\ \E failAt \in 0..4, cpu \in CpuReadings :
         LET o == PlannerRun(Lower(goal), tools, out_file, failAt, cpu, files)
         IN /\ files' = o.files
            /\ callLog' = callLog \o o.log
            /\ IF o.raised
               THEN pc' = "crashed" /\ UNCHANGED result
               ELSE pc' = "print" /\ result' = o.result
    /\ UNCHANGED <<inputs, exchanges, agentLocals, service, executing, tools, output>>

\* ------------------------------------------------------------ specifications
Next ==
    \/ NoCredential
    \/ SendGoal
    \/ SendGoalFails
    \/ LoopEnter
    \/ LoopExit
    \/ ForDone
    \/ ExecCall
    \/ SendResult
    \/ Finalize
    \/ MainFallback
    \/ MainAnswered
    \/ MainPrint
    \/ PlannerListTools
    \/ PlannerRules

Spec == Init /\ [][Next]_vars

\* the CLI without a credential, over every goal: the Deterministic Planner
InitPlanner ==
    /\ apiKey = FALSE
    /\ goal \in Goals
    /\ out_file \in OutFiles
    /\ InitRest

NextPlanner ==
    \/ NoCredential
    \/ MainFallback
    \/ PlannerListTools
    \/ PlannerRules
    \/ MainPrint

SpecPlanner == InitPlanner /\ [][NextPlanner]_vars

\* a direct caller of the Remote Invocation Client and the tool server: the
\* requests it can make, with well-formed, ill-typed and missing arguments
ServerRequests ==
    {[name |-> "get_system_info", args |-> <<>>],
     [name |-> "bogus_tool", args |-> <<>>]}
    \cup {[name |-> "get_cpu_usage", args |-> a] :
            a \in {<<>>, CpuArgs, << <<"interval_sec", JStr(<<"x">>)>> >>}}
    \cup {[name |-> "list_processes", args |-> a] :
            a \in {<<>>, ProcArgs, << <<"limit", JInt(1)>> >>}}
    \cup {[name |-> "store_in_file", args |-> StoreArgs(f, c)] :
            f \in FileNames \cup {<<>>, Unwritable}, c \in {<<"R">>, <<"S">>}}
    \cup {[name |-> "store_in_file", args |-> << <<"content", JStr(<<"R">>)>> >>]}

\* one request and what came of it: up is whether the channel answered
Exchange(rq, up, c) ==
    [name |-> rq.name, args |-> rq.args, up |-> up, ok |-> c.ok, result |-> c.result,
     error |-> c.error, files |-> c.files]

\* call(base, name, args) by a direct caller
CallerInvokes ==
    /\ pc = "caller"
    /\ Len(exchanges) < MaxRequests
    /\ \E rq \in ServerRequests, up \in BOOLEAN :
       \E cpu \in (IF rq.name = "get_cpu_usage" THEN CpuReadings ELSE {1}) :
         /\ files' = call(rq.name, rq.args, up, cpu, files).files
         /\ exchanges' = Append(exchanges,
                                Exchange(rq, up, call(rq.name, rq.args, up, cpu, files)))
    /\ UNCHANGED <<inputs, agentLocals, service, executing, callLog, tools, result, output, pc>>

\* list_tools(base) by a direct caller
CallerLists ==
    /\ pc = "caller"
    /\ tools = {}
    /\ tools' = {list_tools(TRUE)[1][i] : i \in 1..Len(list_tools(TRUE)[1])}
    /\ UNCHANGED <<inputs, exchanges, agentLocals, service, executing, files, callLog,
                   result, output, pc>>

InitServer ==
    /\ apiKey = FALSE
    /\ goal = GoalDefault
    /\ out_file = DefaultOut
    /\ pc = "caller"
    /\ resp = NoResponse
    /\ parts = <<>>
    /\ loops = 0
    /\ made_tool_call = FALSE
    /\ accumulated = <<>>
    /\ name = ""
    /\ tool_result = JNull
    /\ svcContacted = FALSE
    /\ svcFailed = FALSE
    /\ attempted = {}
    /\ invocations = 0
    /\ files = [f \in FileNames |-> None]
    /\ callLog = <<>>
    /\ tools = {}
    /\ result = None
    /\ notice = FALSE
    /\ final = None
    /\ exchanges = <<>>

NextServer ==
    \/ CallerInvokes
    \/ CallerLists

SpecServer == InitServer /\ [][NextServer]_vars

\* generate_health_report over a server that may answer anything of the right
\* shape: a system info with any one field missing, or none at all, a CPU
\* usage over either window, the processes in any order
DropField(i) ==
    JObj([k \in 1..(Len(SysInfoFields) - 1) |->
            IF k < i THEN get_system_info.v[k] ELSE get_system_info.v[k + 1]])
SysInfos == {get_system_info, JObj(<<>>)} \cup {DropField(i) : i \in 1..Len(SysInfoFields)}
CpuUsages == {get_cpu_usage(w, v) : w \in {5, 10}, v \in CpuReadings}
ProcLists == {JArr(q) : q \in SeqsUpTo({ProcTable[i] : i \in 1..Len(ProcTable)}, MaxProcs)}

\* what call returns for a request the server answered with res
Answered(res) == [ok |-> TRUE, result |-> res, files |-> [f \in FileNames |-> None],
                  error |-> NoError]

InitReport ==
    /\ apiKey = FALSE
    /\ goal = GoalDefault
    /\ out_file = <<>>
    /\ pc = "report"
    /\ resp = NoResponse
    /\ parts = <<>>
    /\ loops = 0
    /\ made_tool_call = FALSE
    /\ accumulated = <<>>
    /\ name = ""
    /\ tool_result = JNull
    /\ svcContacted = FALSE
    /\ svcFailed = FALSE
    /\ attempted = {}
    /\ invocations = 0
    /\ files = [f \in FileNames |-> None]
    /\ callLog = <<>>
    /\ tools = {}
    /\ result = None
    /\ notice = FALSE
    /\ final = None
    /\ \E s \in SysInfos, c \in CpuUsages, p \in ProcLists :
         exchanges = <<Exchange([name |-> "get_system_info", args |-> <<>>], TRUE, Answered(s)),
                       Exchange([name |-> "get_cpu_usage", args |-> CpuArgs], TRUE, Answered(c)),
                       Exchange([name |-> "list_processes", args |-> ProcArgs], TRUE, Answered(p))>>

\* generate_health_report(base) over the three answers
ReportRendered ==
    /\ pc = "report"
    /\ result' = Some(HealthReportOf("caller", exchanges[1], exchanges[2], exchanges[3]).text)
    /\ pc' = "reported"
    /\ UNCHANGED <<inputs, exchanges, agentLocals, service, executing, files, callLog,
                   tools, output>>

\* generate_health_report(base) once more, over the same three answers
ReportRenderedAgain ==
    /\ pc = "reported"
    /\ final' = Some(HealthReportOf("caller", exchanges[1], exchanges[2], exchanges[3]).text)
    /\ pc' = "reported twice"
    /\ UNCHANGED <<inputs, exchanges, agentLocals, service, executing, files, callLog,
                   tools, result, notice>>

NextReport ==
    \/ ReportRendered
    \/ ReportRenderedAgain

SpecReport == InitReport /\ [][NextReport]_vars

\* ------------------------------------------------------------------ claims
\* the session of try_gemini_agent is under way, or has just returned
InSession == pc \in {"while", "for", "send", "finalize", "returned"}

\* the step that is taken invokes the operation of the next function_call
Invokes == pc = "for" /\ parts # <<>> /\ DecodeArgs(Head(parts).args) # None

PathOf(stored) == Lookup(stored.v, "path").v

\* C1: within a session the turn counter never decreases and never exceeds 3,
\* every turn (a step from the loop test into the loop body) adds one to it,
\* so there are at most 3 turns, and once it is 3 the loop test leads to
\* FINALIZING whatever the latest response holds.
C1_TurnBound ==
    [][ /\ (pc # "returned" => loops' >= loops)
        /\ loops' <= 3
        /\ (pc = "while" /\ pc' = "for" => loops' = loops + 1)
        /\ (pc' = "for" => pc \in {"while", "for", "send"})
        /\ (pc = "while" /\ loops >= 3 => pc' = "finalize") ]_vars

\* three turns were made and the latest response still holds CallRequests
C1_Witness == pc = "finalize" /\ loops = 3 /\ made_tool_call /\ resp.calls # <<>>

\* C2: whenever the loop returns from a session in which the service answered
\* every message, its result is a non-null, non-empty string.
C2_AlwaysAnswers ==
    (pc = "returned" /\ apiKey /\ ~svcFailed) => (result # None /\ result[1] # <<>>)

\* C3: a step that invokes an operation never ends the session, whether the
\* invocation succeeds or fails: the result is sent back next and the later
\* CallRequests of the response stay to be invoked.
C3_FailureTolerated ==
    [][Invokes => pc' = "send" /\ parts' = Tail(parts)]_vars

\* C4: at every point of a session, every operation name that was requested
\* has an entry in accumulated.
C4_AllRecorded == InSession => attempted \subseteq DOMAIN accumulated

\* C5: once a message to the service has failed for good, the session is over:
\* the loop is not in a turn nor in FINALIZING, it has returned None, the caller
\* has moved on to the Deterministic Planner, no operation is requested by the
\* loop any more and the only requests made are the planner's.
C5_ServiceErrorAborts ==
    /\ [](svcFailed =>
            /\ pc \in {"returned", "planner", "rules", "print", "exit", "crashed"}
            /\ (pc = "returned" => result = None)
            /\ (pc # "returned" => notice)
            /\ \A i \in 1..Len(callLog) : callLog[i].by = "planner")
    /\ [][svcFailed' => /\ attempted' = attempted
                        /\ (callLog' # callLog => pc = "rules")]_vars

\* sending a result back failed and the planner is at work
C5_Witness == svcFailed /\ attempted # {} /\ pc = "rules"

\* C6: without a credential the loop contacts neither the service nor any
\* operation and returns None; main then prints the fallback notice, runs the
\* Deterministic Planner and prints what the planner returned.
C6_NoCredentialFallback ==
    ~apiKey =>
        /\ ~svcContacted
        /\ attempted = {}
        /\ \A i \in 1..Len(callLog) : callLog[i].by = "planner"
        /\ pc \notin {"while", "for", "send", "finalize"}
        /\ (pc \in {"main", "returned", "planner", "rules", "crashed"} => result = None)
        /\ (pc \in {"planner", "rules", "print", "exit", "crashed"} => notice)
        /\ (pc \in {"rules", "print", "exit"} => tools # {})
        /\ (pc \in {"print", "exit"} => result # None)
        /\ (pc = "exit" => final = result)

\* a run without a credential has printed the planner's result
C6_Witness == ~apiKey /\ pc = "exit" /\ notice /\ final # None /\ callLog # <<>>

\* C7 as claimed: when FINALIZING ends a session in which store_in_file was
\* executed, the final answer is the path that invocation returned.
C7_ReturnsStoredPath ==
    (pc = "returned" /\ result # None /\ "store_in_file" \in DOMAIN accumulated)
        => result = Some(PathOf(accumulated["store_in_file"]))

\* C7 as amended: when FINALIZING ends a session in which store_in_file was
\* executed, it makes no request, and the final answer is the last free text
\* of the service when that is non-empty and the JSON serialization of
\* accumulated otherwise.
C7_TextOrJsonAfterStore ==
    [][(pc = "finalize" /\ "store_in_file" \in DOMAIN accumulated) =>
         /\ files' = files
         /\ callLog' = callLog
         /\ IF resp.text # <<>>
            THEN result' = Some(resp.text)
            ELSE \E items \in DictItems(accumulated) :
                   result' = Some(JsonDumps(JObj(items)))]_vars

\* FINALIZING has ended a session that executed store_in_file and had no text
C7_Witness ==
    /\ pc = "returned"
    /\ result # None
    /\ "store_in_file" \in DOMAIN accumulated
    /\ resp.text = <<>>

\* C8: when FINALIZING ends a session in which store_in_file was not executed
\* and the three report sources are in accumulated, the stored report is the
\* rendering of those three accumulated results and the answer is its path.
C8_ReportOfAccumulated ==
    (/\ pc = "returned"
     /\ result # None
     /\ out_file # <<>>
     /\ "store_in_file" \notin DOMAIN accumulated
     /\ HaveReportSources(accumulated))
        => /\ result = Some(OutputPath(out_file))
           /\ files[out_file] =
                Some(RenderReport(accumulated["get_system_info"],
                                  accumulated["get_cpu_usage"],
                                  accumulated["list_processes"]))

\* C9 as claimed: when FINALIZING ends a session without store_in_file and
\* without all three report sources, the answer is the last free text when
\* non-empty and the JSON serialization of accumulated otherwise.
C9_TextOrJson ==
    (/\ pc = "returned"
     /\ result # None
     /\ "store_in_file" \notin DOMAIN accumulated
     /\ ~HaveReportSources(accumulated))
        => IF resp.text # <<>>
           THEN result = Some(resp.text)
           ELSE \E items \in DictItems(accumulated) :
                  result = Some(JsonDumps(JObj(items)))

\* C9 as amended: in that case, when the last free text is non-empty and an
\* output file name is given, FINALIZING stores the text under that name and
\* the answer is the stored path (None when that request fails); when the text
\* is non-empty and no name is given, the answer is the text; when the text is
\* empty, the answer is the JSON serialization of accumulated.
C9_StoredTextOrJson ==
    [][(/\ pc = "finalize"
        /\ "store_in_file" \notin DOMAIN accumulated
        /\ ~HaveReportSources(accumulated)) =>
         IF resp.text # <<>> /\ out_file # <<>>
         THEN \/ /\ result' = Some(OutputPath(out_file))
                 /\ files' = [files EXCEPT ![out_file] = Some(resp.text)]
              \/ /\ result' = None
                 /\ files' = files
         ELSE /\ files' = files
              /\ callLog' = callLog
              /\ IF resp.text # <<>>
                 THEN result' = Some(resp.text)
                 ELSE \E items \in DictItems(accumulated) :
                        result' = Some(JsonDumps(JObj(items)))]_vars

\* FINALIZING has stored the free text of a session that executed something
\* else than the three sources, and answered with the path
C9_Witness ==
    /\ pc = "returned"
    /\ attempted # {}
    /\ "store_in_file" \notin DOMAIN accumulated
    /\ ~HaveReportSources(accumulated)
    /\ resp.text # <<>>
    /\ result = Some(OutputPath(out_file))
    /\ files[out_file] = Some(resp.text)

\* C10: the planner applies the first rule its lower-cased goal matches:
\* (1) "health" and ("report" or "summary"): it requests get_system_info,
\* get_cpu_usage(0.5), list_processes(5) in that order; (2) else "cpu" and
\* "usage": it requests get_cpu_usage(0.5) only and returns that result;
\* (3) else "process": it requests list_processes(5) only and returns that
\* result; (4) else it requests nothing and returns the operation names in
\* sorted order.
C10_RuleTable ==
    [][pc = "rules" =>
         LET g == Lower(goal)
             made == SubSeq(callLog', Len(callLog) + 1, Len(callLog'))
             reqs == [i \in 1..Len(made) |-> <<made[i].name, made[i].args>>]
             info == <<"get_system_info", <<>>>>
             usage == <<"get_cpu_usage", << <<"interval_sec", JFloat(5)>> >> >>
             procs == <<"list_processes", << <<"limit", JInt(5)>> >> >>
             names == <<JStr(<<"get_cpu_usage">>), JStr(<<"get_system_info">>),
                        JStr(<<"list_processes">>), JStr(<<"store_in_file">>)>>
         IN IF Contains(g, KwHealth) /\ (Contains(g, KwReport) \/ Contains(g, KwSummary))
            THEN /\ \A i \in 1..Len(reqs) : i <= 3 => reqs[i] = <<info, usage, procs>>[i]
                 /\ (pc' = "print" => Len(reqs) >= 3)
            ELSE IF Contains(g, KwCpu) /\ Contains(g, KwUsage)
            THEN /\ reqs = <<usage>>
                 /\ files' = files
                 /\ (pc' = "print" => \E v \in CpuReadings :
                        result' = Some(JsonDumpsIndent2(get_cpu_usage(5, v))))
            ELSE IF Contains(g, KwProcess)
            THEN /\ reqs = <<procs>>
                 /\ files' = files
                 /\ (pc' = "print" => result' = Some(JsonDumpsIndent2(list_processes(5))))
            ELSE /\ reqs = <<>>
                 /\ files' = files
                 /\ pc' = "print"
                 /\ result' = Some(JsonDumpsIndent2(
                                     JObj(<< <<"available_tools", JArr(names)>> >>)))]_vars

\* rule 2 has answered a goal that rule 3 matches too
C10_Witness ==
    /\ goal = GoalCpuProc
    /\ pc = "print"
    /\ Len(callLog) = 1
    /\ callLog[1].name = "get_cpu_usage"
    /\ result # None

\* the requests the step that is taken adds to the log
MadeBy(log, logAfter) == SubSeq(logAfter, Len(log) + 1, Len(logAfter))

\* rule 1 matches the lower-cased goal
MatchesRule1(g) ==
    Contains(g, KwHealth) /\ (Contains(g, KwReport) \/ Contains(g, KwSummary))

\* the report of a run in which get_cpu_usage measured v
ReportWith(v) == RenderReport(get_system_info, get_cpu_usage(5, v), list_processes(5))

\* C11 as claimed: for every goal matching rule 1, with store_in_file in the
\* catalog, what the planner returns is the path of a file that store_in_file
\* wrote with the rendering of the three results gathered in that run.
C11_StoredWheneverInCatalog ==
    [][(/\ pc = "rules"
        /\ MatchesRule1(Lower(goal))
        /\ "store_in_file" \in tools
        /\ pc' = "print") =>
         \E f \in FileNames, v \in CpuReadings :
            /\ result' = Some(OutputPath(f))
            /\ files'[f] = Some(ReportWith(v))]_vars

\* C11 as amended: for every goal matching rule 1, with store_in_file in the
\* catalog: when the output file name is non-empty the planner's fourth request
\* is store_in_file with that name and, as content, the rendering of the three
\* results gathered in that run, the file holds that content and the planner
\* returns its path; when the output file name is empty the planner stores
\* nothing and returns the rendering itself.
C11_StoredWhenNamed ==
    [][(/\ pc = "rules"
        /\ MatchesRule1(Lower(goal))
        /\ "store_in_file" \in tools
        /\ pc' = "print") =>
         LET made == MadeBy(callLog, callLog')
         IN \E v \in CpuReadings :
              IF out_file # <<>>
              THEN /\ Len(made) = 4
                   /\ made[4].name = "store_in_file"
                   /\ made[4].args = << <<"file_name", JStr(out_file)>>,
                                        <<"content", JStr(ReportWith(v))>> >>
                   /\ result' = Some(OutputPath(out_file))
                   /\ files' = [files EXCEPT ![out_file] = Some(ReportWith(v))]
              ELSE /\ Len(made) = 3
                   /\ result' = Some(ReportWith(v))
                   /\ files' = files]_vars

\* rule 1 has stored its report under the output file name and returned the path
C11_Witness ==
    /\ ~apiKey
    /\ MatchesRule1(Lower(goal))
    /\ pc = "print"
    /\ out_file # <<>>
    /\ Len(callLog) = 4
    /\ callLog[4].name = "store_in_file"
    /\ callLog[4].ok
    /\ result = Some(OutputPath(out_file))
    /\ files[out_file] # None

\* C12: when the planner handles a goal that rule 1 does not match, none of
\* the requests it makes is store_in_file and the output directory after the
\* planner is the one before it.
C12_OtherRulesStoreNothing ==
    [][(pc = "rules" /\ ~MatchesRule1(Lower(goal))) =>
         /\ files' = files
         /\ \A i \in 1..Len(MadeBy(callLog, callLog')) :
              MadeBy(callLog, callLog')[i].name # "store_in_file"]_vars

\* rule 3 has answered, with an output file name given and nothing stored
C12_Witness ==
    /\ ~apiKey
    /\ goal = GoalProc
    /\ out_file = DefaultOut
    /\ pc = "print"
    /\ result = Some(JsonDumpsIndent2(list_processes(5)))
    /\ Len(callLog) = 1
    /\ files = [f \in FileNames |-> None]

\* the directory a request of a direct caller found
FilesBefore(i) == IF i = 1 THEN [f \in FileNames |-> None] ELSE exchanges[i - 1].files

\* the i-th request of a direct caller is store_in_file with a non-empty file
\* name and a content, and the channel answered
StoresNamed(i) ==
    /\ exchanges[i].name = "store_in_file"
    /\ exchanges[i].up
    /\ HasKey(exchanges[i].args, "file_name")
    /\ HasKey(exchanges[i].args, "content")
    /\ Lookup(exchanges[i].args, "file_name").v # <<>>

\* C13: when store_in_file is invoked twice in a row with the same non-empty
\* file name and the same content, both invocations end the same way, with the
\* same path when they return, and the output directory after the second is
\* the one after the first, the file holding the content; and an invocation of
\* any other operation leaves the output directory as it found it.
C13_StoreIdempotent ==
    /\ \A i \in 1..(Len(exchanges) - 1) :
         (StoresNamed(i) /\ StoresNamed(i + 1) /\ exchanges[i + 1].args = exchanges[i].args)
           => /\ exchanges[i + 1].ok = exchanges[i].ok
              /\ exchanges[i + 1].files = exchanges[i].files
              /\ exchanges[i].ok <=> Lookup(exchanges[i].args, "file_name").v \in FileNames
              /\ exchanges[i].ok =>
                   /\ PathOf(exchanges[i].result)
                        = OutputPath(Lookup(exchanges[i].args, "file_name").v)
                   /\ PathOf(exchanges[i + 1].result) = PathOf(exchanges[i].result)
                   /\ exchanges[i].files[Lookup(exchanges[i].args, "file_name").v]
                        = Some(Lookup(exchanges[i].args, "content").v)
    /\ \A i \in 1..Len(exchanges) :
         exchanges[i].name # "store_in_file" => exchanges[i].files = FilesBefore(i)

\* the same store_in_file request was answered twice in a row
C13_Witness ==
    /\ Len(exchanges) >= 2
    /\ StoresNamed(1)
    /\ StoresNamed(2)
    /\ exchanges[2].args = exchanges[1].args
    /\ exchanges[2].ok
    /\ files[ModelOut] = Some(<<"S">>)

\* why the i-th request of a direct caller failed
CauseOf(i) ==
    IF ~exchanges[i].up THEN "TransportError"
    ELSE IF \A k \in 1..Len(ToolNames) : ToolNames[k] # exchanges[i].name
         THEN "UnknownOperation"
         ELSE "OperationError"

\* C14: a failed invocation is reported by kind: the error its caller gets is
\* an UnknownOperation when the name is not in the catalog (and no handler ran:
\* the output directory is untouched), an OperationError when the handler
\* failed, a TransportError when the channel did not answer.
C14_ErrorKinds ==
    \A i \in 1..Len(exchanges) :
        ~exchanges[i].ok =>
            /\ exchanges[i].error.type = CauseOf(i)
            /\ exchanges[i].files = FilesBefore(i)

\* C15: no run of the CLI ends on an uncaught error, and a run that is over
\* has printed a final result that is not empty.
C15_AlwaysPrintsResult ==
    /\ pc # "crashed"
    /\ pc = "exit" => (final # None /\ final[1] # <<>>)

\* the next function_call of the turn has arguments that cannot be decoded
Malformed == pc = "for" /\ parts # <<>> /\ DecodeArgs(Head(parts).args) = None

\* C16: the step that meets a malformed call request does not end the
\* session: nothing is invoked for it, and the loop goes on to the rest of the
\* session (the next part, the next turn or FINALIZING) with no answer given up.
C16_MalformedSkipped ==
    [][Malformed =>
         /\ pc' \in {"for", "while", "finalize"}
         /\ attempted' = attempted
         /\ accumulated' = accumulated
         /\ result' = result]_vars

\* C17: within a turn the CallRequests are taken from the response the turn
\* started with, one at a time and in its order: the step that invokes takes
\* the first one not yet handled, records its result and leaves the rest for
\* later; the next step sends that result back to the service and invokes
\* nothing; only then is the next CallRequest up.
C17_OneAtATimeInOrder ==
    [][/\ (pc = "while" /\ pc' = "for") => parts' = resp.calls
       /\ (Invokes /\ pc' # "returned") =>
            /\ pc' = "send"
            /\ parts' = Tail(parts)
            /\ name' = Head(parts).name
            /\ name' \in attempted'
            /\ name' \in DOMAIN accumulated'
       /\ pc = "send" =>
            /\ pc' \in {"for", "returned"}
            /\ parts' = parts
            /\ attempted' = attempted
            /\ accumulated' = accumulated
            /\ files' = files
       /\ (pc = "for" /\ pc' \in {"while", "finalize"}) => parts = <<>>]_vars

\* the first turn has invoked get_system_info, sent its result back, and then
\* invoked get_cpu_usage, the second CallRequest of the same response
C17_Witness ==
    /\ pc = "send"
    /\ loops = 1
    /\ parts = <<>>
    /\ name = "get_cpu_usage"
    /\ attempted = {"get_system_info", "get_cpu_usage"}
    /\ DOMAIN accumulated = {"get_system_info", "get_cpu_usage"}

\* C18: accumulated has one entry per operation name that was invoked with
\* success; the step that invokes an operation sets the entry of its name to
\* the result that invocation returned, whatever the entry was, and leaves the
\* entries of the other names as they were; no other step of a session
\* changes accumulated.
C18_LastWriteWins ==
    [][/\ (Invokes /\ pc' = "send") =>
            /\ DOMAIN accumulated' = DOMAIN accumulated \cup {Head(parts).name}
            /\ accumulated'[Head(parts).name] = tool_result'
            /\ \E cpu \in CpuReadings :
                 tool_result' = call(Head(parts).name, DecodeArgs(Head(parts).args)[1],
                                     TRUE, cpu, files).result
            /\ \A k \in DOMAIN accumulated \ {Head(parts).name} :
                 accumulated'[k] = accumulated[k]
       /\ (pc \in {"while", "send", "finalize"} \/ (pc = "for" /\ pc' # "send"))
            => accumulated' = accumulated]_vars

\* get_cpu_usage was invoked in the first turn and again in the second, and
\* the entry holds what the second invocation returned
C18_Witness ==
    /\ pc = "send"
    /\ loops = 2
    /\ attempted = {"get_cpu_usage"}
    /\ name = "get_cpu_usage"
    /\ accumulated["get_cpu_usage"] = get_cpu_usage(5, MaxCpu)
    /\ tool_result = accumulated["get_cpu_usage"]

\* the lines of a text: what text.split("\n") gives
RECURSIVE SplitLines(_, _)
SplitLines(text, line) ==
    IF text = <<>> THEN <<line>>
    ELSE IF Head(text) = "\n" THEN <<line>> \o SplitLines(Tail(text), <<>>)
    ELSE SplitLines(Tail(text), Append(line, Head(text)))

\* C19: the report rendered from three results is: the four header lines;
\* then ten lines, the i-th naming the i-th field of the fixed list with its
\* value, or None when the system info has no such field; then, between
\* blank lines, the CPU line with the percentage and the window, and the
\* heading of the processes; then one line per process, the i-th for the i-th
\* process received; then nothing more. A second rendering of the same
\* results gives the same text.
C19_ReportFormat ==
    (pc \in {"reported", "reported twice"}) =>
        LET sysinfo == exchanges[1].result.v
            cpu == exchanges[2].result.v
            procs == exchanges[3].result.v
            lines == SplitLines(result[1], <<>>)
            value(v) == IF v.t = "str" THEN v.v ELSE
                        IF v.t = "int" THEN <<ToString(v.v)>> ELSE
                        <<ToString(v.v \div 10) \o "." \o ToString(v.v % 10)>>
        IN /\ Len(lines) = 19 + Len(procs)
           /\ SubSeq(lines, 1, 4) = << <<"System Health Report">>, <<"====================">>,
                                       <<>>, <<"System Info:">> >>
           /\ \A i \in 1..10 :
                lines[4 + i] = <<"- ", SysInfoFields[i], ": ">>
                    \o (IF \E k \in 1..Len(sysinfo) : sysinfo[k][1] = SysInfoFields[i]
                        THEN value(sysinfo[CHOOSE k \in 1..Len(sysinfo) :
                                             sysinfo[k][1] = SysInfoFields[i]][2])
                        ELSE <<"None">>)
           /\ lines[15] = <<>>
           /\ lines[16] = <<"CPU Usage: ">> \o value(cpu[1][2]) \o <<"% (window ">>
                            \o value(cpu[2][2]) \o <<"s)">>
           /\ lines[17] = <<>>
           /\ lines[18] = <<"Top Processes (by CPU):">>
           /\ \A i \in 1..Len(procs) :
                lines[18 + i] = <<"- pid=">> \o value(procs[i].v[1][2]) \o <<" cpu=">>
                                  \o value(procs[i].v[2][2]) \o <<"% mem=">>
                                  \o value(procs[i].v[3][2]) \o <<"% cmd=">>
                                  \o value(procs[i].v[4][2])
           /\ lines[19 + Len(procs)] = <<>>
           /\ pc = "reported twice" => final = result

\* a report was rendered twice from a system info that lacks a field and from
\* two processes received in ascending order of CPU
C19_Witness ==
    /\ pc = "reported twice"
    /\ Len(exchanges[1].result.v) = 9
    /\ Len(exchanges[3].result.v) = 2
    /\ exchanges[3].result.v[1] = ProcTable[1]
    /\ exchanges[3].result.v[2] = ProcTable[2]
    /\ final # None

\* C20: a turn executes the CallRequests of the response that is current when
\* it starts and no others: the reply to a result replaces the current
\* response but adds nothing to what the turn still has to execute, so of the
\* replies of a turn only the last one is planned from, by the next turn; and
\* a session makes at most 3 * MaxCalls invocations.
C20_TurnSnapshot ==
    /\ [](invocations <= 3 * MaxCalls)
    /\ [][/\ (pc = "while" /\ pc' = "for") =>
               parts' = resp.calls /\ Len(parts') <= MaxCalls
          /\ (pc = "for" /\ pc' = "send") =>
               parts' = Tail(parts) /\ resp' = resp /\ invocations' = invocations + 1
          /\ (pc = "send" /\ pc' = "for") => parts' = parts
          /\ (pc = "for" /\ pc' = "while") => parts = <<>>
          /\ invocations' # invocations =>
               (pc = "for" \/ (pc = "returned" /\ invocations' = 0))]_vars

\* three turns have each executed a response of MaxCalls CallRequests, and
\* the reply to the last result, which holds CallRequests too, is left unplanned
C20_Witness ==
    /\ pc = "finalize"
    /\ loops = 3
    /\ invocations = 3 * MaxCalls
    /\ resp.calls # <<>>

====
